---- MODULE Spec2Model ----
(***************************************************************************)
(* Model of src/InciReport.py: the load pipeline of the incident dashboard *)
(* (time standardisation, Incident Hour, Time Range, Day of Week) and its  *)
(* two Dash callbacks, update_graphs and update_pie_chart.                 *)
(*                                                                         *)
(* A Python string is a sequence of one-character strings.  A spreadsheet  *)
(* cell is a record [kind, s]: kind "str" carries the string s, kind       *)
(* "null" is NaN/None, kind "obj" is a non-string object (a datetime.time  *)
(* or a number read by read_excel).                                        *)
(***************************************************************************)
EXTENDS Integers, Sequences, FiniteSets, TLC

(***************************************************************************)
(* Strings                                                                 *)
(***************************************************************************)
Digits == <<"0", "1", "2", "3", "4", "5", "6", "7", "8", "9">>

DigitSet == {Digits[i] : i \in 1..10}

IsDigit(c) == c \in DigitSet

DigitVal(c) == (CHOOSE i \in 1..10 : Digits[i] = c) - 1

\* int() of a non-empty string of digits
RECURSIVE ToInt(_)
ToInt(s) ==
  IF Len(s) = 0 THEN 0
  ELSE 10 * ToInt(SubSeq(s, 1, Len(s) - 1)) + DigitVal(s[Len(s)])

\* the %H / %M / %S output of strftime: two digits, zero padded
Pad2(n) == <<Digits[(n \div 10) + 1], Digits[(n % 10) + 1]>>

StrCell(s) == [kind |-> "str", s |-> s]

NullCell == [kind |-> "null", s |-> <<>>]

ObjCell == [kind |-> "obj", s |-> <<>>]

\* pd.isnull on a scalar cell
isnull(cell) == cell.kind = "null"

Unknown == <<"U", "n", "k", "n", "o", "w", "n">>

Upper ==
  <<"A", "B", "C", "D", "E", "F", "G", "H", "I", "J", "K", "L", "M",
    "N", "O", "P", "Q", "R", "S", "T", "U", "V", "W", "X", "Y", "Z">>

Lower ==
  <<"a", "b", "c", "d", "e", "f", "g", "h", "i", "j", "k", "l", "m",
    "n", "o", "p", "q", "r", "s", "t", "u", "v", "w", "x", "y", "z">>

LowerChar(c) ==
  IF \E i \in 1..26 : Upper[i] = c
    THEN Lower[CHOOSE i \in 1..26 : Upper[i] = c]
    ELSE c

\* str.lower
lower(s) == [i \in 1..Len(s) |-> LowerChar(s[i])]

IsSpace(c) == c = " "

RECURSIVE lstrip(_)
lstrip(s) ==
  IF Len(s) > 0 /\ IsSpace(s[1]) THEN lstrip(Tail(s)) ELSE s

RECURSIVE rstrip(_)
rstrip(s) ==
  IF Len(s) > 0 /\ IsSpace(s[Len(s)]) THEN rstrip(SubSeq(s, 1, Len(s) - 1)) ELSE s

\* str.strip
strip(s) == rstrip(lstrip(s))

\* the Python test `sub in s`
Contains(s, sub) ==
  \E i \in 1..(Len(s) - Len(sub) + 1) : SubSeq(s, i, i + Len(sub) - 1) = sub

(***************************************************************************)
(* pd.to_datetime(value, format=...) and Timestamp.strftime, as the        *)
(* pipeline calls them.  A format directive is the regular expression of   *)
(* the strptime implementation: a list of alternatives tried in order,     *)
(* each alternative a list of character classes.                           *)
(***************************************************************************)
D0to5 == {"0", "1", "2", "3", "4", "5"}

D1to9 == DigitSet \ {"0"}

Alternatives(tok) ==
  CASE tok = "H" -> << <<{"2"}, {"0", "1", "2", "3"}>>, <<{"0", "1"}, DigitSet>>, <<DigitSet>> >>
    [] tok = "I" -> << <<{"1"}, {"0", "1", "2"}>>, <<{"0"}, D1to9>>, <<D1to9>> >>
    [] tok = "M" -> << <<D0to5, DigitSet>>, <<DigitSet>> >>
    [] tok = "S" -> << <<{"6"}, {"0", "1"}>>, <<D0to5, DigitSet>>, <<DigitSet>> >>
    [] tok = "p" -> << <<{"a", "A"}, {"m", "M"}>>, <<{"p", "P"}, {"m", "M"}>> >>
    [] OTHER -> << <<{tok}>> >>

\* '%I:%M%p', '%H:%M' and '%H:%M:%S'
FmtIMp == <<"I", ":", "M", "p">>

FmtHM == <<"H", ":", "M">>

FmtHMS == <<"H", ":", "M", ":", "S">>

Tokens == {"H", "I", "M", "S", "p", ":"}

NoMatch == [ok |-> FALSE, end |-> 0, g |-> [t \in Tokens |-> <<>>]]

At(s, p) == IF p >= 1 /\ p <= Len(s) THEN s[p] ELSE ""

AltMatches(alt, s, p) == \A j \in 1..Len(alt) : At(s, p + j - 1) \in alt[j]

\* re.match of the format's pattern at position p, directive k onwards:
\* the first match in the alternatives' order, backtracking on failure
RECURSIVE MatchFrom(_, _, _, _, _)
MatchFrom(fmt, s, p, k, a) ==
  IF k > Len(fmt) THEN [ok |-> TRUE, end |-> p - 1, g |-> [t \in Tokens |-> <<>>]]
  ELSE LET alts == Alternatives(fmt[k]) IN
    IF a > Len(alts) THEN NoMatch
    ELSE IF AltMatches(alts[a], s, p)
      THEN LET n == Len(alts[a])
               r == MatchFrom(fmt, s, p + n, k + 1, 1)
           IN IF r.ok THEN [r EXCEPT !.g[fmt[k]] = SubSeq(s, p, p + n - 1)]
              ELSE MatchFrom(fmt, s, p, k, a + 1)
      ELSE MatchFrom(fmt, s, p, k, a + 1)

\* the strings the parser reads as a missing value
nat_strings ==
  { <<"N", "a", "T">>, <<"n", "a", "t">>, <<"N", "A", "T">>,
    <<"n", "a", "n">>, <<"N", "a", "N">>, <<"N", "A", "N">> }

NaT == [kind |-> "NaT", hour |-> 0, minute |-> 0, second |-> 0]

ParseError == [kind |-> "error", hour |-> 0, minute |-> 0, second |-> 0]

\* fault variant of Hour12: 12 o'clock not special-cased
Hour12_noon(I, p) ==
  IF lower(p) = <<"a", "m">> THEN I ELSE I + 12

\* hour of a 12-hour clock reading with its am/pm marker
Hour12(I, p) ==
  IF lower(p) = <<"a", "m">>
    THEN (IF I = 12 THEN 0 ELSE I)
    ELSE (IF I = 12 THEN 12 ELSE I + 12)

\* fault variant of to_datetime: exact=False, data after the match ignored
to_datetime_inexact(s, fmt) ==
  IF Len(s) = 0 \/ s \in nat_strings THEN NaT
  ELSE LET r == MatchFrom(fmt, s, 1, 1, 1) IN
    IF ~r.ok THEN ParseError
    ELSE [kind |-> "ts",
          hour |-> IF Len(r.g["I"]) > 0 THEN Hour12(ToInt(r.g["I"]), r.g["p"])
                   ELSE ToInt(r.g["H"]),
          minute |-> ToInt(r.g["M"]),
          second |-> ToInt(r.g["S"])]

\* pd.to_datetime(s, format=fmt) on a string: a timestamp, NaT, or a raised
\* ValueError (no match, or unconverted data after the match)
to_datetime(s, fmt) ==
  IF Len(s) = 0 \/ s \in nat_strings THEN NaT
  ELSE LET r == MatchFrom(fmt, s, 1, 1, 1) IN
    IF ~r.ok THEN ParseError
    ELSE IF r.end # Len(s) THEN ParseError
    ELSE [kind |-> "ts",
          hour |-> IF Len(r.g["I"]) > 0 THEN Hour12(ToInt(r.g["I"]), r.g["p"])
                   ELSE ToInt(r.g["H"]),
          minute |-> ToInt(r.g["M"]),
          second |-> ToInt(r.g["S"])]

\* Timestamp.strftime('%H:%M:%S')
strftime(ts) == Pad2(ts.hour) \o <<":">> \o Pad2(ts.minute) \o <<":">> \o Pad2(ts.second)

(***************************************************************************)
(* The load pipeline, one row                                              *)
(***************************************************************************)
\* fault variant of standardize_time: the 24-hour path also accepts H:MM:SS
standardize_time_seconds(time_str) ==
  IF isnull(time_str) THEN Unknown
  ELSE IF time_str.kind # "str" THEN Unknown
  ELSE LET s == lower(strip(time_str.s)) IN
    IF Contains(s, <<"a", "m">>) \/ Contains(s, <<"p", "m">>)
      THEN LET t == to_datetime(s, FmtIMp) IN
             IF t.kind = "ts" THEN strftime(t) ELSE Unknown
    ELSE IF Contains(s, <<"-">>) THEN Unknown
    ELSE LET t == to_datetime(s, FmtHM)
             u == to_datetime(s, FmtHMS)
         IN IF t.kind = "ts" THEN strftime(t)
            ELSE IF u.kind = "ts" THEN strftime(u) ELSE Unknown

\* def standardize_time(time_str): every exception (a parse error, strftime
\* of NaT, .strip() of a non-string) is caught by the bare except
standardize_time(time_str) ==
  IF isnull(time_str) THEN Unknown
  ELSE IF time_str.kind # "str" THEN Unknown
  ELSE LET s == lower(strip(time_str.s)) IN
    IF Contains(s, <<"a", "m">>) \/ Contains(s, <<"p", "m">>)
      THEN LET t == to_datetime(s, FmtIMp) IN
             IF t.kind = "ts" THEN strftime(t) ELSE Unknown
    ELSE IF Contains(s, <<"-">>) THEN Unknown
    ELSE LET t == to_datetime(s, FmtHM) IN
           IF t.kind = "ts" THEN strftime(t) ELSE Unknown

\* fault variant of IncidentHour: fillna(0)
IncidentHour_zero(std_time) ==
  LET t == to_datetime(std_time, FmtHMS) IN
    IF t.kind = "ts" THEN t.hour ELSE 0

\* pd.to_datetime(std, format='%H:%M:%S', errors='coerce').dt.hour, fillna(-1)
IncidentHour(std_time) ==
  LET t == to_datetime(std_time, FmtHMS) IN
    IF t.kind = "ts" THEN t.hour ELSE -1

\* fault variant of time_range: the first boundary closed (hour <= 6)
time_range_closed(h) ==
  IF h < 0 THEN "Unknown"
  ELSE IF 0 <= h /\ h <= 6 THEN "12am-6am"
  ELSE IF 6 <= h /\ h < 9 THEN "6am-9am"
  ELSE IF 9 <= h /\ h < 12 THEN "9am-12pm"
  ELSE IF 12 <= h /\ h < 15 THEN "12pm-3pm"
  ELSE IF 15 <= h /\ h < 18 THEN "3pm-6pm"
  ELSE IF 18 <= h /\ h < 21 THEN "6pm-9pm"
  ELSE "9pm-12am"

\* def time_range(hour)
time_range(h) ==
  IF h < 0 THEN "Unknown"
  ELSE IF 0 <= h /\ h < 6 THEN "12am-6am"
  ELSE IF 6 <= h /\ h < 9 THEN "6am-9am"
  ELSE IF 9 <= h /\ h < 12 THEN "9am-12pm"
  ELSE IF 12 <= h /\ h < 15 THEN "12pm-3pm"
  ELSE IF 15 <= h /\ h < 18 THEN "3pm-6pm"
  ELSE IF 18 <= h /\ h < 21 THEN "6pm-9pm"
  ELSE "9pm-12am"

(***************************************************************************)
(* State                                                                   *)
(***************************************************************************)
VARIABLES
  pc,              \* position of the script / of the one-row pipeline
  time_in,         \* one 'Incident Time' cell
  std,             \* its 'Standardized Incident Time'
  hour,            \* its 'Incident Hour'
  range,           \* its 'Time Range'
  again,           \* standardize_time applied to std
  df,              \* the module-level DataFrame, a sequence of rows
  incident_types,  \* the dropdown's value set
  graphs,          \* the last call of update_graphs: argument, filtered_df, figures
  pie              \* the last call of update_pie_chart: argument, labels

vars == <<pc, time_in, std, hour, range, again, df, incident_types, graphs, pie>>

rowVars == <<time_in, std, hour, range, again>>

dashVars == <<df, incident_types, graphs, pie>>

NoGraphs ==
  [called |-> FALSE, selected |-> NullCell, filtered_df |-> <<>>, total |-> 0,
   types |-> {}, hours |-> <<>>, ranges |-> <<>>, days |-> <<>>]

NoPie == [called |-> FALSE, selected |-> NullCell, labels |-> <<>>]

(***************************************************************************)
(* The one-row pipeline: lines 47, 48-49 and 74 applied to one cell        *)
(***************************************************************************)
MaxHourTok == 25

Concat3(a, b, c) == a \o b \o c

\* hour tokens: 0..MaxHourTok unpadded, 00..09 padded, and no digits at all
HourToks ==
  {(IF n < 10 THEN <<Digits[n + 1]>> ELSE Pad2(n)) : n \in 0..MaxHourTok}
    \cup {Pad2(n) : n \in 0..9} \cup {<<>>}

SepToks == {<<":">>, <<"-">>, <<>>}

MinToks ==
  {<<"0", "0">>, <<"0", "5">>, <<"3", "0">>, <<"5", "9">>, <<"6", "0">>,
   <<"9", "9">>, <<"1", "0">>, <<"5">>, <<>>}

SufToks ==
  {<<>>, <<"a", "m">>, <<"p", "m">>, <<"A", "M">>, <<"P", "m">>,
   <<"P", "M", " ">>, <<" ", "p", "m">>, <<":", "0", "0">>}

PreToks == {<<>>, <<" ">>}

TimeStrings ==
  {Concat3(pre \o h, sep \o m, suf) :
     pre \in PreToks, h \in HourToks, sep \in SepToks, m \in MinToks, suf \in SufToks}
    \cup {Unknown, <<"n", "a", "t">>, <<"N", "a", "N">>,
          <<"l", "u", "n", "c", "h", "-", "b", "r", "e", "a", "k">>}

TimeInputs == {NullCell, ObjCell} \cup {StrCell(s) : s \in TimeStrings}

InitRow ==
  /\ pc = "start"
  /\ time_in \in TimeInputs
  /\ std = <<>>
  /\ hour = 0
  /\ range = ""
  /\ again = <<>>
  /\ df = <<>>
  /\ incident_types = {}
  /\ graphs = NoGraphs
  /\ pie = NoPie

\* df['Standardized Incident Time'] = df['Incident Time'].apply(standardize_time)
Standardize ==
  /\ pc = "start"
  /\ std' = standardize_time(time_in)
  /\ pc' = "std"
  /\ UNCHANGED <<time_in, hour, range, again, dashVars>>

\* df['Incident Hour'] = pd.to_datetime(...).dt.hour ; fillna(-1)
DeriveHour ==
  /\ pc = "std"
  /\ hour' = IncidentHour(std)
  /\ pc' = "hour"
  /\ UNCHANGED <<time_in, std, range, again, dashVars>>

\* df['Time Range'] = df['Incident Hour'].apply(time_range)
DeriveRange ==
  /\ pc = "hour"
  /\ range' = time_range(hour)
  /\ pc' = "range"
  /\ UNCHANGED <<time_in, std, hour, again, dashVars>>

\* standardize_time applied once more, to its own output
Restandardize ==
  /\ pc = "range"
  /\ again' = standardize_time(StrCell(std))
  /\ pc' = "again"
  /\ UNCHANGED <<time_in, std, hour, range, dashVars>>

NextRow == Standardize \/ DeriveHour \/ DeriveRange \/ Restandardize

SpecRow == InitRow /\ [][NextRow]_vars

(***************************************************************************)
(* The dashboard: the script's load (lines 47-77) and its two callbacks    *)
(***************************************************************************)
MaxRows == 3

All == <<"A", "l", "l">>

Theft == <<"T", "h", "e", "f", "t">>

theft == <<"t", "h", "e", "f", "t">>

TheftMinor == Theft \o <<" ", "(", "m", "i", "n", "o", "r", ")">>

DayNames ==
  <<"Monday", "Tuesday", "Wednesday", "Thursday", "Friday", "Saturday", "Sunday">>

\* a 'Date' cell: a date (days since Monday 1900-01-01), a value that does
\* not parse, or an empty cell
DateCell(n) == [kind |-> "date", ord |-> n]

BadDate == [kind |-> "bad", ord |-> 0]

NoDate == [kind |-> "null", ord |-> 0]

RawRow(t, d, ty) == [time |-> t, date |-> d, type |-> ty]

\* the rows read_excel can deliver, under their renamed columns
RowPool ==
  { RawRow(StrCell(<<"2", ":", "1", "5", "p", "m">>), DateCell(0), StrCell(Theft)),
    RawRow(StrCell(<<"0", "8", ":", "3", "0">>), DateCell(5), StrCell(TheftMinor)),
    RawRow(StrCell(<<"l", "u", "n", "c", "h", "-", "b", "r", "e", "a", "k">>), BadDate, StrCell(theft)),
    RawRow(NullCell, NoDate, NullCell),
    RawRow(StrCell(<<"8", ":", "0", "5", "A", "M">>), DateCell(8), StrCell(Theft)),
    RawRow(ObjCell, DateCell(7), StrCell(TheftMinor)) }

\* the values a callback can be invoked with: the dropdown's, None, others
SelPool == {StrCell(All), StrCell(Theft), StrCell(theft), StrCell(TheftMinor), NullCell}

SeqsUpTo(S, n) == UNION {[1..k -> S] : k \in 0..n}

\* pd.to_datetime(df['Date'], errors='coerce')
ParseDate(d) == IF d.kind = "date" THEN d ELSE NoDate

\* df['Date'].dt.day_name(): NaN for NaT
day_name(d) ==
  IF d.kind = "date" THEN [isna |-> FALSE, name |-> DayNames[(d.ord % 7) + 1]]
  ELSE [isna |-> TRUE, name |-> ""]

\* lines 47-74 on one row
LoadRow(r) ==
  LET s == standardize_time(r.time)
      h == IncidentHour(s)
      d == ParseDate(r.date)
  IN [time |-> r.time, date |-> d, type |-> r.type,
      std |-> s, hour |-> h, day |-> day_name(d), range |-> time_range(h)]

\* df['Incident Type'].dropna().unique()
DropdownTypes(d) == {d[i].type.s : i \in {j \in 1..Len(d) : ~isnull(d[j].type)}}

InitDash ==
  /\ pc = "raw"
  /\ df \in SeqsUpTo(RowPool, MaxRows)
  /\ incident_types = {}
  /\ graphs = NoGraphs
  /\ pie = NoPie
  /\ time_in = NullCell
  /\ std = <<>>
  /\ hour = 0
  /\ range = ""
  /\ again = <<>>

\* module level, lines 47-77
Load ==
  /\ pc = "raw"
  /\ df' = [i \in 1..Len(df) |-> LoadRow(df[i])]
  /\ incident_types' = DropdownTypes(df)
  /\ pc' = "ready"
  /\ UNCHANGED <<rowVars, graphs, pie>>

\* fault variant of FilterDf: the comparison ignores case
FilterDf_nocase(d, selected_type) ==
  IF selected_type # StrCell(All)
    THEN SelectSeq(d, LAMBDA r : /\ r.type.kind = "str"
                                 /\ selected_type.kind = "str"
                                 /\ lower(r.type.s) = lower(selected_type.s))
    ELSE d

\* df[df['Incident Type'] == selected_type] if selected_type != 'All' else df
FilterDf(d, selected_type) ==
  IF selected_type # StrCell(All)
    THEN SelectSeq(d, LAMBDA r : /\ r.type.kind = "str"
                                 /\ selected_type.kind = "str"
                                 /\ r.type.s = selected_type.s)
    ELSE d

\* re.sub(r'\s*\(.*?\)', '', s) from position i
RECURSIVE StripParens(_, _)
StripParens(s, i) ==
  IF i > Len(s) THEN <<>>
  ELSE LET ws == CHOOSE k \in 0..Len(s) :
                   /\ \A j \in i..(i + k - 1) : IsSpace(At(s, j))
                   /\ ~IsSpace(At(s, i + k))
           open == i + ws
           closes == {j \in (open + 1)..Len(s) : s[j] = ")"}
       IN IF At(s, open) = "(" /\ closes # {}
            THEN StripParens(s, (CHOOSE j \in closes : \A k \in closes : j <= k) + 1)
            ELSE <<s[i]>> \o StripParens(s, i + 1)

\* filtered_df['Incident Type'].str.replace(...).value_counts(): NaN dropped
TypeCounts(fdf) ==
  LET idx == {i \in 1..Len(fdf) : ~isnull(fdf[i].type)}
      lab(i) == StripParens(fdf[i].type.s, 1)
  IN { <<l, Cardinality({i \in idx : lab(i) = l})>> : l \in {lab(i) : i \in idx} }

\* fault variant of HourGroups: the rows of hour -1 are left out
RECURSIVE HourGroups_nonneg(_, _)
HourGroups_nonneg(fdf, from) ==
  LET present == {fdf[i].hour : i \in 1..Len(fdf)}
      rest == {h \in present : h >= from /\ h >= 0}
  IN IF rest = {} THEN <<>>
     ELSE LET h == CHOOSE x \in rest : \A y \in rest : x <= y
          IN <<[key |-> h, count |-> Cardinality({i \in 1..Len(fdf) : fdf[i].hour = h})]>>
               \o HourGroups_nonneg(fdf, h + 1)

\* filtered_df.groupby('Incident Hour').size(): one group per hour present,
\* in ascending order of the hour
RECURSIVE HourGroups(_, _)
HourGroups(fdf, from) ==
  LET present == {fdf[i].hour : i \in 1..Len(fdf)}
      rest == {h \in present : h >= from}
  IN IF rest = {} THEN <<>>
     ELSE LET h == CHOOSE x \in rest : \A y \in rest : x <= y
          IN <<[key |-> h, count |-> Cardinality({i \in 1..Len(fdf) : fdf[i].hour = h})]>>
               \o HourGroups(fdf, h + 1)

\* the categories of a column in order of first appearance, with counts
RECURSIVE Histogram(_, _)
Histogram(col, seen) ==
  IF col = <<>> THEN <<>>
  ELSE IF Head(col) \in seen THEN Histogram(Tail(col), seen)
  ELSE <<[key |-> Head(col), count |-> Cardinality({i \in 1..Len(col) : col[i] = Head(col)})]>>
         \o Histogram(Tail(col), seen \cup {Head(col)})

\* fault variant of TotalAscending: no categoryorder, bars as they appear
TotalAscending_none(bars) == bars

\* xaxis categoryorder 'total ascending': a stable sort of the bars by count
RECURSIVE TotalAscending(_)
TotalAscending(bars) ==
  IF bars = <<>> THEN <<>>
  ELSE LET m == CHOOSE i \in 1..Len(bars) :
                  /\ \A j \in 1..Len(bars) : bars[i].count <= bars[j].count
                  /\ \A j \in 1..(i - 1) : bars[j].count > bars[i].count
       IN <<bars[m]>> \o TotalAscending(SubSeq(bars, 1, m - 1) \o SubSeq(bars, m + 1, Len(bars)))

\* px.histogram(filtered_df, x='Time Range') with categoryorder 'total ascending'
TimeRangeBars(fdf) == TotalAscending(Histogram([i \in 1..Len(fdf) |-> fdf[i].range], {}))

\* px.histogram(filtered_df, x='Day of Week', category_orders=Monday..Sunday):
\* rows without a day are not counted
DayBars(fdf) ==
  LET n(k) == Cardinality({i \in 1..Len(fdf) : ~fdf[i].day.isna /\ fdf[i].day.name = DayNames[k]})
      F[k \in 0..7] ==
        IF k = 0 THEN <<>>
        ELSE IF n(k) > 0 THEN F[k - 1] \o <<[key |-> DayNames[k], count |-> n(k)]>>
        ELSE F[k - 1]
  IN F[7]

\* fault variant of update_graphs: the cleaned Incident Type is assigned to
\* filtered_df's column, which is df itself under 'All'
update_graphs_inplace(d, selected_type) ==
  LET filtered_df == FilterDf(d, selected_type)
      cleaned(r) == IF isnull(r.type) THEN r
                    ELSE [r EXCEPT !.type = StrCell(StripParens(r.type.s, 1))]
  IN [df |-> IF selected_type = StrCell(All) THEN [i \in 1..Len(d) |-> cleaned(d[i])] ELSE d,
      out |-> [called |-> TRUE, selected |-> selected_type, filtered_df |-> filtered_df,
               total |-> Len(filtered_df),
               types |-> TypeCounts(filtered_df),
               hours |-> HourGroups(filtered_df, -1),
               ranges |-> TimeRangeBars(filtered_df),
               days |-> DayBars(filtered_df)]]

\* def update_graphs(selected_type): the module's df after the call, the
\* local filtered_df, and the five figures' data
update_graphs(d, selected_type) ==
  LET filtered_df == FilterDf(d, selected_type) IN
    [df |-> d,
     out |-> [called |-> TRUE, selected |-> selected_type, filtered_df |-> filtered_df,
              total |-> Len(filtered_df),
              types |-> TypeCounts(filtered_df),
              hours |-> HourGroups(filtered_df, -1),
              ranges |-> TimeRangeBars(filtered_df),
              days |-> DayBars(filtered_df)]]

\* fault variant of update_pie_chart: the pie drawn from the filtered rows
update_pie_chart_filtered(d, selected_type) ==
  [df |-> d,
   out |-> [called |-> TRUE, selected |-> selected_type,
            labels |-> [i \in 1..Len(FilterDf(d, selected_type)) |->
                          FilterDf(d, selected_type)[i].type]]]

\* def update_pie_chart(_): px.pie(df, names='Incident Type')
update_pie_chart(d, selected_type) ==
  [df |-> d,
   out |-> [called |-> TRUE, selected |-> selected_type,
            labels |-> [i \in 1..Len(d) |-> d[i].type]]]

UpdateGraphs(selected_type) ==
  /\ pc = "ready"
  /\ LET r == update_graphs(df, selected_type) IN
       /\ df' = r.df
       /\ graphs' = r.out
  /\ UNCHANGED <<pc, rowVars, incident_types, pie>>

UpdatePieChart(selected_type) ==
  /\ pc = "ready"
  /\ LET r == update_pie_chart(df, selected_type) IN
       /\ df' = r.df
       /\ pie' = r.out
  /\ UNCHANGED <<pc, rowVars, incident_types, graphs>>

Next ==
  \/ Load
  \/ \E selected_type \in SelPool : UpdateGraphs(selected_type)
  \/ \E selected_type \in SelPool : UpdatePieChart(selected_type)

Spec == InitDash /\ [][Next]_vars

(***************************************************************************)
(* Properties of the one-row pipeline (SpecRow)                            *)
(***************************************************************************)
AllDigits(s) == \A i \in 1..Len(s) : IsDigit(s[i])

Norm(cell) == lower(strip(cell.s))

\* s is <hour digits>:<minute digits><tail>, the hour of 1 or 2 digits with a
\* value in hours, the minute of ml digits with a value in 0..59
HasShape(s, hours, ml, tail) ==
  \E hl \in 1..2 :
    /\ Len(s) = hl + 1 + ml + Len(tail)
    /\ AllDigits(SubSeq(s, 1, hl))
    /\ ToInt(SubSeq(s, 1, hl)) \in hours
    /\ s[hl + 1] = ":"
    /\ AllDigits(SubSeq(s, hl + 2, hl + 1 + ml))
    /\ ToInt(SubSeq(s, hl + 2, hl + 1 + ml)) \in 0..59
    /\ SubSeq(s, hl + 2 + ml, Len(s)) = tail

\* 'H:MMam' / 'H:MMpm' with minutes of a length in mls
WellFormed12(cell, mls) ==
  /\ cell.kind = "str"
  /\ \E ml \in mls, tail \in {<<"a", "m">>, <<"p", "m">>} :
       HasShape(Norm(cell), 1..12, ml, tail)

\* 'H:MM' with minutes of a length in mls
WellFormed24(cell, mls) ==
  /\ cell.kind = "str"
  /\ \E ml \in mls : HasShape(Norm(cell), 0..23, ml, <<>>)

ColonPos(s) == CHOOSE i \in 1..Len(s) : s[i] = ":" /\ \A j \in 1..(i - 1) : s[j] # ":"

HourField(s) == ToInt(SubSeq(s, 1, ColonPos(s) - 1))

MinuteField(s) ==
  LET rest == SubSeq(s, ColonPos(s) + 1, Len(s))
      n == CHOOSE k \in 0..Len(rest) :
             /\ AllDigits(SubSeq(rest, 1, k))
             /\ (k = Len(rest) \/ ~IsDigit(rest[k + 1]))
  IN ToInt(SubSeq(rest, 1, n))

HMS(h, m) ==
  <<Digits[(h \div 10) + 1], Digits[(h % 10) + 1], ":",
    Digits[(m \div 10) + 1], Digits[(m % 10) + 1], ":", "0", "0">>

\* 'HH:MM:SS' with HH in 0..23, MM in 0..59 and SS = 00
IsHMS(s) ==
  /\ Len(s) = 8
  /\ s[3] = ":" /\ s[6] = ":"
  /\ AllDigits(SubSeq(s, 1, 2)) /\ AllDigits(SubSeq(s, 4, 5))
  /\ ToInt(SubSeq(s, 1, 2)) \in 0..23
  /\ ToInt(SubSeq(s, 4, 5)) \in 0..59
  /\ SubSeq(s, 7, 8) = <<"0", "0">>

Standardized == pc \in {"std", "hour", "range", "again"}

T_2_30pm == <<"2", ":", "3", "0", "p", "m">>

T_14_05 == <<"1", "4", ":", "0", "5">>

T_25_99 == <<"2", "5", ":", "9", "9">>

T_9_10 == <<"9", "-", "1", "0">>

\* C2: a well-formed 12-hour input 'H:MMam'/'H:MMpm' (any case, surrounding
\* whitespace ignored) is standardized to its 24-hour time HH:MM:00 (12am ->
\* 00, 12pm -> 12, Hpm -> H+12), and a well-formed 24-hour input 'H:MM' to the
\* zero-padded HH:MM:00; '2:30pm' gives '14:30:00' and '14:05' gives '14:05:00'.
C2_StandardizeWellFormed ==
  Standardized =>
    /\ WellFormed12(time_in, {2}) =>
         LET s == Norm(time_in)
             h == HourField(s)
         IN std = HMS((h % 12) + (IF s[Len(s) - 1] = "p" THEN 12 ELSE 0), MinuteField(s))
    /\ WellFormed24(time_in, {2}) =>
         std = HMS(HourField(Norm(time_in)), MinuteField(Norm(time_in)))
    /\ time_in = StrCell(T_2_30pm) => std = HMS(14, 30)
    /\ time_in = StrCell(T_14_05) => std = HMS(14, 5)

C2_Witness ==
  /\ pc = "std"
  /\ time_in = StrCell(<<" ", "1", "2", ":", "0", "5", "A", "M">>)
  /\ std = <<"0", "0", ":", "0", "5", ":", "0", "0">>

\* C3 as stated: every input that is not a well-formed time ('H:MMam/pm' or
\* 'H:MM' with a two-digit minute) is standardized to 'Unknown', and the
\* result is always 'Unknown' or of the form HH:MM:SS.
C3_NotWellFormedIsUnknown ==
  Standardized =>
    /\ ~(WellFormed12(time_in, {2}) \/ WellFormed24(time_in, {2})) => std = Unknown
    /\ std = Unknown \/ IsHMS(std)

\* C3 amended: the same with a one-digit minute also counted as well formed:
\* null, non-string, empty, hyphenated-without-marker, out-of-range and
\* otherwise malformed inputs give 'Unknown', and the result is always
\* 'Unknown' or of the form HH:MM:SS.
C3_RejectedIsUnknown ==
  Standardized =>
    /\ ~(WellFormed12(time_in, {1, 2}) \/ WellFormed24(time_in, {1, 2})) => std = Unknown
    /\ time_in.kind # "str" => std = Unknown
    /\ (time_in.kind = "str" /\ strip(time_in.s) = <<>>) => std = Unknown
    /\ ( /\ time_in.kind = "str"
         /\ Contains(time_in.s, <<"-">>)
         /\ ~Contains(Norm(time_in), <<"a", "m">>)
         /\ ~Contains(Norm(time_in), <<"p", "m">>) ) => std = Unknown
    /\ time_in \in {StrCell(T_25_99), StrCell(T_9_10)} => std = Unknown
    /\ std = Unknown \/ IsHMS(std)

C3_Witness ==
  /\ pc = "std"
  /\ time_in = StrCell(T_25_99)
  /\ std = Unknown

Labels ==
  {"Unknown", "12am-6am", "6am-9am", "9am-12pm", "12pm-3pm", "3pm-6pm", "6pm-9pm", "9pm-12am"}

\* the table of C4: the label of hour h
LabelOf(h) ==
  CASE h = -1 -> "Unknown"
    [] h \in {0, 1, 2, 3, 4, 5} -> "12am-6am"
    [] h \in {6, 7, 8} -> "6am-9am"
    [] h \in {9, 10, 11} -> "9am-12pm"
    [] h \in {12, 13, 14} -> "12pm-3pm"
    [] h \in {15, 16, 17} -> "3pm-6pm"
    [] h \in {18, 19, 20} -> "6pm-9pm"
    [] h \in {21, 22, 23} -> "9pm-12am"

\* C4: the row's Time Range is the label of its Incident Hour: 'Unknown' for
\* -1, '12am-6am' for 0..5, '6am-9am' for 6..8, '9am-12pm' for 9..11,
\* '12pm-3pm' for 12..14, '3pm-6pm' for 15..17, '6pm-9pm' for 18..20 and
\* '9pm-12am' for 21..23, one of the 8 labels for every hour in -1..23.
C4_TimeRangeTable ==
  pc \in {"range", "again"} =>
    /\ hour \in -1..23
    /\ range \in Labels
    /\ range = LabelOf(hour)

C4_Witness ==
  /\ pc = "range"
  /\ hour = 21
  /\ range = "9pm-12am"

\* C5: the Incident Hour is the HH of a standardized time HH:MM:SS (in 0..23),
\* it is -1 exactly when the standardized time is 'Unknown', and it is never
\* outside {-1} \cup 0..23.
C5_HourConsistent ==
  pc \in {"hour", "range", "again"} =>
    /\ hour \in {-1} \cup 0..23
    /\ IsHMS(std) => hour = ToInt(SubSeq(std, 1, 2))
    /\ (std = Unknown) <=> (hour = -1)

C5_Witness ==
  /\ pc = "hour"
  /\ std = <<"2", "3", ":", "5", "9", ":", "0", "0">>
  /\ hour = 23

\* C6 as stated: for a valid 12-hour input, standardize_time of the output of
\* standardize_time equals the first output.
C6_Idempotent ==
  (pc = "again" /\ WellFormed12(time_in, {2})) => again = std

\* C6 amended: for a valid 12-hour input the first application yields
\* HH:MM:00 and standardize_time of that output is 'Unknown', because the
\* 24-hour path accepts H:MM without seconds only.
C6_SecondPassUnknown ==
  (pc = "again" /\ WellFormed12(time_in, {2})) =>
    /\ IsHMS(std)
    /\ again = Unknown

C6_Witness ==
  /\ pc = "again"
  /\ time_in = StrCell(T_2_30pm)
  /\ std = <<"1", "4", ":", "3", "0", ":", "0", "0">>
  /\ again = Unknown

(***************************************************************************)
(* Properties of the dashboard (Spec)                                      *)
(***************************************************************************)
CountIn(seq, r) == Cardinality({i \in 1..Len(seq) : seq[i] = r})

RowsOf(seq) == {seq[i] : i \in 1..Len(seq)}

RECURSIVE SumCounts(_)
SumCounts(bars) == IF bars = <<>> THEN 0 ELSE Head(bars).count + SumCounts(Tail(bars))

KeysOf(bars) == {bars[i].key : i \in 1..Len(bars)}

KeySeq(bars) == [i \in 1..Len(bars) |-> bars[i].key]

\* bars has one bar per value of field(row) over the rows of f, with its count
CountsOver(bars, f, field(_)) ==
  /\ KeysOf(bars) = {field(f[i]) : i \in 1..Len(f)}
  /\ \A i, j \in 1..Len(bars) : bars[i].key = bars[j].key => i = j
  /\ \A b \in 1..Len(bars) :
       bars[b].count = Cardinality({i \in 1..Len(f) : field(f[i]) = bars[b].key})

\* C1: update_graphs' filtered_df is the whole df when the selection is 'All',
\* and otherwise holds exactly the rows whose Incident Type is a string equal
\* to the selected value (each as often as in df, none with another or an
\* absent type).
C1_FilterExact ==
  graphs.called =>
    IF graphs.selected = StrCell(All) THEN graphs.filtered_df = df
    ELSE \A r \in RowsOf(df) \cup RowsOf(graphs.filtered_df) :
           CountIn(graphs.filtered_df, r) =
             IF r.type = graphs.selected /\ r.type.kind = "str" THEN CountIn(df, r) ELSE 0

C1_Witness ==
  /\ graphs.called
  /\ graphs.selected = StrCell(Theft)
  /\ \E i \in 1..Len(df) : df[i].type = StrCell(theft)
  /\ \E i \in 1..Len(df) : df[i].type = NullCell
  /\ Len(graphs.filtered_df) = 1

\* C7: the hour groups' counts (-1 its own group) and the Time Range bars'
\* counts ('Unknown' its own bar) each sum to the number of filtered rows; the
\* Day of Week bars sum to that number less the filtered rows without a
\* parsed date.
C7_GroupSums ==
  graphs.called =>
    LET f == graphs.filtered_df IN
      /\ SumCounts(graphs.hours) = Len(f)
      /\ SumCounts(graphs.ranges) = Len(f)
      /\ SumCounts(graphs.days) =
           Len(f) - Cardinality({i \in 1..Len(f) : f[i].date.kind # "date"})

C7_Witness ==
  /\ graphs.called
  /\ Len(graphs.filtered_df) = 3
  /\ \E i \in 1..3 : graphs.filtered_df[i].hour = -1
  /\ SumCounts(graphs.hours) = 3
  /\ SumCounts(graphs.days) = 2

GraphsFromFiltered ==
  LET f == graphs.filtered_df
      typed == SelectSeq(f, LAMBDA r : ~isnull(r.type))
      hourOf(r) == r.hour
      rangeOf(r) == r.range
      dayOf(r) == r.day.name
  IN /\ graphs.total = Len(f)
     /\ CountsOver(graphs.hours, f, hourOf)
     /\ CountsOver(graphs.ranges, f, rangeOf)
     /\ CountsOver(graphs.days, SelectSeq(f, LAMBDA r : ~r.day.isna), dayOf)
     /\ \A l \in {StripParens(typed[i].type.s, 1) : i \in 1..Len(typed)} :
          <<l, Cardinality({i \in 1..Len(typed) : StripParens(typed[i].type.s, 1) = l})>>
            \in graphs.types
     /\ Cardinality(graphs.types) =
          Cardinality({StripParens(typed[i].type.s, 1) : i \in 1..Len(typed)})

\* C8: whatever the selection, update_pie_chart's labels are the raw Incident
\* Type column of the whole df, so two calls with any two selections return
\* the same breakdown; every figure of update_graphs is computed from
\* filtered_df.
C8_PieIgnoresSelection ==
  /\ [](pie.called => pie.labels = [i \in 1..Len(df) |-> df[i].type])
  /\ [](graphs.called => GraphsFromFiltered)
  /\ [][(pie.called /\ pie'.called) => pie'.labels = pie.labels]_vars

C8_Witness ==
  /\ pie.called
  /\ pie.selected = StrCell(TheftMinor)
  /\ Len(pie.labels) = 3
  /\ \E i \in 1..3 : pie.labels[i] = StrCell(Theft)
  /\ graphs.called
  /\ graphs.selected = StrCell(TheftMinor)
  /\ graphs.total = 1

\* C9 as stated: two results of update_graphs whose Time Range bars have the
\* same set of buckets present them in the same order.
C9_FixedBucketOrder ==
  [][(graphs.called /\ graphs'.called /\ KeysOf(graphs.ranges) = KeysOf(graphs'.ranges))
       => KeySeq(graphs'.ranges) = KeySeq(graphs.ranges)]_vars

\* C9 amended: the Time Range bars are the buckets of filtered_df with their
\* counts, presented in ascending order of count (so the order depends on the
\* frequencies).
C9_AscendingByCount ==
  graphs.called =>
    /\ \A i, j \in 1..Len(graphs.ranges) :
         i < j => graphs.ranges[i].count <= graphs.ranges[j].count
    /\ KeysOf(graphs.ranges) =
         {graphs.filtered_df[i].range : i \in 1..Len(graphs.filtered_df)}

C9_Witness ==
  /\ graphs.called
  /\ Len(graphs.filtered_df) = 3
  /\ Len(graphs.ranges) = 2
  /\ graphs.ranges[1].count = 1
  /\ graphs.ranges[2].count = 2
  /\ graphs.filtered_df[1].range = graphs.ranges[2].key

\* C10: once loaded, no callback changes df or the dropdown's value set, the
\* value set stays the one derived from df, and a callback invoked again with
\* the same value returns the same result.
C10_DatasetReadOnly ==
  /\ [](pc = "ready" => incident_types = DropdownTypes(df))
  /\ [][pc = "ready" =>
          /\ df' = df
          /\ incident_types' = incident_types
          /\ (graphs.called /\ graphs'.selected = graphs.selected) => graphs' = graphs
          /\ (pie.called /\ pie'.selected = pie.selected) => pie' = pie]_vars

C10_Witness ==
  /\ pc = "ready"
  /\ graphs.called
  /\ pie.called
  /\ graphs.selected = StrCell(All)
  /\ Len(df) = 3
  /\ \E i \in 1..3 : df[i].type = StrCell(TheftMinor)
  /\ incident_types = {Theft, TheftMinor}

====
